---- MODULE Spec2Model ----
(***************************************************************************)
(* A model of the concurrency engine of @percy/core: the priority Queue    *)
(* (packages/core/dist/queue.js) and the Percy state machine that owns a   *)
(* snapshots queue and an uploads queue (core percy.js).                   *)
(*                                                                         *)
(* A queue is a record; its methods are operators from queue to queue, so  *)
(* the same definitions serve the standalone queue and Percy's two queues. *)
(* Tasks are numbered in creation order (uid = index in Q.tasks); the      *)
(* ordered map `queued` is the sequence of the queued uids and the map     *)
(* `pending` is the set of the pending uids, both keyed by the task id.    *)
(***************************************************************************)
EXTENDS Integers, Sequences, FiniteSets, TLC

\* ------------------------------------------------------------------ bounds
MaxTasks == 3
MaxConcurrency == 2
MaxLiveTasks == 2
MaxSnapshots == 2
MaxFlushes == 1
MaxCancels == 1
MaxLoggerCalls == 3

\* ------------------------------------------------------- JavaScript values
\* task.priority: undefined (no third argument), null, or a number
Undefined == [k |-> "undefined", n |-> 0]
Null == [k |-> "null", n |-> 0]
Num(i) == [k |-> "number", n |-> i]
Priorities == {Undefined, Null, Num(0), Num(1)}
LivePriorities == {Undefined, Num(1)}

\* `p == null` / `p != null` of JavaScript: true of null and of undefined
IsNullish(p) == p.k # "number"

\* `a < b` of JavaScript on priorities: ToNumber(undefined) is NaN and every
\* comparison with NaN is false, ToNumber(null) is 0
JSLess(a, b) == a.k # "undefined" /\ b.k # "undefined" /\ a.n < b.n

FlushId == "@@/flush"
UserIds == {"a", "b"}

\* id.startsWith('@@/')
IsSentinel(id) == id = FlushId

\* ------------------------------------------------------------------ tasks
\* st:   "queued"   in #queued
\*       "pending"  in #pending, its callback started and not settled
\*       "detached" callback started and not settled, removed from #pending
\*       "dropped"  removed from #queued by cancel(id), never started
\*       "cleared"  removed from #queued by clear(), never started
\*       "settled"  callback settled and done() has run
\* prom: the task's promise: "pending", "settled" (with the callback's own
\*       result, a value or its own error), "canceled" (rejected with the
\*       canceled failure)
\* trig: task.cancel.triggered
\* cb:   what the callback does: "user", "flush" (no-op barrier),
\*       "flushStop" (barrier that stops the queue again)
\* open: the queue was running and not closed when the task was pushed
NewTask(Q, id, priority, cb) ==
  [id |-> id, priority |-> priority, cb |-> cb, st |-> "queued",
   prom |-> "pending", trig |-> FALSE, open |-> Q.running /\ ~Q.closed]

Queue(concurrency) ==
  [running |-> TRUE, closed |-> FALSE, concurrency |-> concurrency,
   queued |-> <<>>, pending |-> {}, tasks |-> <<>>]

Uids(Q) == 1..Len(Q.tasks)
SeqSet(s) == {s[i] : i \in 1..Len(s)}
WithId(Q, S, id) == {u \in S : Q.tasks[u].id = id}
Without(s, S) == SelectSeq(s, LAMBDA u : u \notin S)

\* tasks whose callback has been started and has not settled
Executing(Q) == {u \in Uids(Q) : Q.tasks[u].st \in {"pending", "detached"}}

Queue_size(Q) == Len(Q.queued) + Cardinality(Q.pending)

Queue_has(Q, id) ==
  WithId(Q, SeqSet(Q.queued), id) # {} \/ WithId(Q, Q.pending, id) # {}

\* cancel(id): pending.get(id)?.cancel(); pending.delete(id); queued.delete(id)
Queue_cancel(Q, id) ==
  LET P == WithId(Q, Q.pending, id)
      D == WithId(Q, SeqSet(Q.queued), id)
  IN [Q EXCEPT !.pending = @ \ P,
               !.queued = Without(@, D),
               !.tasks = [u \in Uids(Q) |->
                  IF u \in P THEN [@[u] EXCEPT !.trig = TRUE, !.st = "detached"]
                  ELSE IF u \in D THEN [@[u] EXCEPT !.st = "dropped"]
                  ELSE @[u]]]

\* clear(): queued.clear() (the returned size is Queue_clearResult)
Queue_clear(Q) ==
  [Q EXCEPT !.queued = <<>>,
            !.tasks = [u \in Uids(Q) |->
               IF @[u].st = "queued" THEN [@[u] EXCEPT !.st = "cleared"]
               ELSE @[u]]]

Queue_clearResult(Q) == Queue_size(Queue_clear(Q))

Queue_stop(Q) == [Q EXCEPT !.running = FALSE]
Queue_open(Q) == [Q EXCEPT !.closed = FALSE]

Queue_close(Q, abort) ==
  [(IF abort THEN Queue_clear(Queue_stop(Q)) ELSE Q) EXCEPT !.closed = TRUE]

\* next(): the best task of the queued tasks up to the first @@/flush; 0 for
\* undefined
RECURSIVE NextScan(_, _, _)
NextScan(Q, i, nxt) ==
  IF i > Len(Q.queued) THEN nxt
  ELSE LET u == Q.queued[i]
           t == Q.tasks[u]
           n == IF \/ nxt = 0
                   \/ ~IsNullish(t.priority) /\ IsNullish(Q.tasks[nxt].priority)
                   \/ JSLess(t.priority, Q.tasks[nxt].priority)
                THEN u ELSE nxt
       IN IF t.id = FlushId THEN n ELSE NextScan(Q, i + 1, n)

NextLatest(Q) == IF Q.queued = <<>> THEN 0 ELSE Q.queued[Len(Q.queued)]

Queue_next(Q) == NextScan(Q, 1, 0)

\* The synchronous part of a callback, run by generatePromise(task.callback)
\* when the task is promoted.
CallbackStart(Q, u) ==
  IF Q.tasks[u].cb \in {"flushStop", "build"} THEN Queue_stop(Q) ELSE Q

DequeueNoLimit(Q) ==
  LET u == Queue_next(Q)
  IN IF ~Q.running \/ u = 0 THEN Q
     ELSE CallbackStart(
            [Q EXCEPT !.queued = Without(@, {u}),
                      !.pending = @ \cup {u},
                      !.tasks[u].st = "pending"], u)

\* _dequeue(): promote next() when running and below the concurrency
Queue_dequeue(Q) ==
  LET u == Queue_next(Q)
  IN IF ~Q.running \/ Cardinality(Q.pending) >= Q.concurrency \/ u = 0 THEN Q
     ELSE CallbackStart(
            [Q EXCEPT !.queued = Without(@, {u}),
                      !.pending = @ \cup {u},
                      !.tasks[u].st = "pending"], u)

\* run(): running = true; while (running && queued.size && pending.size <
\* concurrency) _dequeue()
RECURSIVE RunLoop(_)
RunLoop(Q) ==
  IF Q.running /\ Len(Q.queued) > 0 /\ Cardinality(Q.pending) < Q.concurrency
  THEN RunLoop(Queue_dequeue(Q)) ELSE Q

Queue_run(Q) == RunLoop([Q EXCEPT !.running = TRUE])

PushWhenClosed(Q, id, priority, cb) ==
  LET C == Queue_cancel(Q, id)
  IN Queue_dequeue(
       [C EXCEPT !.tasks = Append(@, NewTask(Q, id, priority, cb)),
                 !.queued = Append(@, Len(C.tasks) + 1)])

\* push(id, callback, priority)
Queue_push(Q, id, priority, cb) ==
  IF Q.closed /\ ~IsSentinel(id) THEN Q
  ELSE LET C == Queue_cancel(Q, id)
       IN Queue_dequeue(
            [C EXCEPT !.tasks = Append(@, NewTask(Q, id, priority, cb)),
                      !.queued = Append(@, Len(C.tasks) + 1)])

\* done without the test of task.cancel.triggered
DoneUntriggered(Q, u, outcome) ==
  Queue_dequeue(
    [Q EXCEPT !.pending = @ \ WithId(Q, Q.pending, Q.tasks[u].id),
              !.tasks[u].st = "settled",
              !.tasks[u].prom = outcome])

DoneNoDequeue(Q, u, outcome) ==
  LET D == IF Q.tasks[u].trig THEN {} ELSE WithId(Q, Q.pending, Q.tasks[u].id)
  IN [Q EXCEPT !.pending = @ \ D,
               !.tasks[u].st = "settled",
               !.tasks[u].prom = outcome]

\* done(callback)(arg): the completion of the started task u
Queue_done(Q, u, outcome) ==
  LET D == IF Q.tasks[u].trig THEN {} ELSE WithId(Q, Q.pending, Q.tasks[u].id)
  IN Queue_dequeue(
       [Q EXCEPT !.pending = @ \ D,
                 !.tasks[u].st = "settled",
                 !.tasks[u].prom = outcome])

\* The outcomes of a started callback: its own result, or, once canceled, the
\* canceled failure it sees at its next suspension point (which it may still
\* handle, or never meet when it has no suspension point left).
Outcomes(Q, u) ==
  {"settled"} \cup (IF Q.tasks[u].trig THEN {"canceled"} ELSE {})

\* flush(): run().push('@@/flush', () => { if (stopped) this.stop() })
Queue_flush(Q) ==
  Queue_push(Queue_run(Q), FlushId, Undefined,
             IF Q.running THEN "flush" ELSE "flushStop")

\* [...queued.keys()].indexOf('@@/flush'): 0-based, -1 when absent
IndexOfFlush(Q) ==
  LET I == {i \in 1..Len(Q.queued) : Q.tasks[Q.queued[i]].id = FlushId}
  IN IF I = {} THEN -1 ELSE (CHOOSE i \in I : TRUE) - 1

LeftNoPending(Q) == IF IndexOfFlush(Q) = -1 THEN 0 ELSE IndexOfFlush(Q)

\* `left` of the poll callback of flush(): if (!~left &&
\* !pending.has('@@/flush')) left = 0
Queue_flushLeft(Q) ==
  IF IndexOfFlush(Q) = -1 /\ WithId(Q, Q.pending, FlushId) = {} THEN 0
  ELSE IndexOfFlush(Q)

\* what a poll of flush(callback) passes to callback: pend + left
Queue_flushProgress(Q) == Cardinality(Q.pending) + Queue_flushLeft(Q)

\* the canceled handler of flush(): if (stopped) stop(); cancel('@@/flush')
Queue_flushCanceled(Q, stopped) ==
  Queue_cancel(IF stopped THEN Queue_stop(Q) ELSE Q, FlushId)

\* One poll of waitFor(() => !pending.size, {idle: 10}): the condition has to
\* hold on two polls in a row.
IdlePoll(Q, ph) ==
  IF Q.pending # {} THEN "wait"
  ELSE IF ph = "wait" THEN "idle" ELSE "resolved"

\* ------------------------------------------------------------------ Percy
\* readyState: null is NotStarted; 0 starting, 1 running, 2 stopping,
\* 3 stopped
NotStarted == -1

Names == {"x"}
BuildId == "build/create"
SnapshotId(n) == IF n = "x" THEN "snapshot/x" ELSE "snapshot/y"
UploadId(n) == IF n = "x" THEN "upload/x" ELSE "upload/y"
NameOf(id) == CHOOSE n \in Names : SnapshotId(n) = id

\* The position of a call that is not in flight, and of a flush(): "tick"
\* (setImmediate), "snapshots" and "uploads" (the flush of that queue, ph
\* being the state of its poll and `stopped` what that flush captured), then
\* of stop() itself: "closing" (server and browser), "finalizing"
\* (client.finalizeBuild)
At(pc) == [pc |-> pc, ph |-> "wait", stopped |-> FALSE]

\* the position of a call that has just called Q.flush()
Flushing(pc, Q) == [pc |-> pc, ph |-> "wait", stopped |-> ~Q.running]

\* flush(true) is the flush inside stop(), flush() a call of its own
Caller(close) == IF close THEN "stop" ELSE "flush"
After(close) == IF close THEN At("closing") ELSE At("none")

\* new Percy({dryRun, skipUploads, deferUploads, discovery: {concurrency}})
\* `closeCalled` records that close() was called from outside the instance
Percy(dryRun, skipUploads, deferUploads, concurrency) ==
  LET skip == dryRun \/ skipUploads
      defer == skip \/ deferUploads
  IN [readyState |-> NotStarted,
      dryRun |-> dryRun, skipUploads |-> skip, deferUploads |-> defer,
      uploads |-> IF defer THEN Queue_stop(Queue(concurrency))
                  ELSE Queue(concurrency),
      snapshots |-> Queue(concurrency),
      build |-> [id |-> FALSE, error |-> FALSE, failed |-> FALSE],
      start |-> [pc |-> "none", buildTask |-> "pending"],
      stop |-> At("none"),
      flush |-> At("none"),
      gather |-> {},
      created |-> 0,
      closeCalled |-> FALSE,
      calls |-> 0,
      flushes |-> 0,
      cancels |-> 0]

\* close(): snapshots.close(true); uploads.close(true)
Percy_close(P) ==
  [P EXCEPT !.snapshots = Queue_close(@, TRUE),
            !.uploads = Queue_close(@, TRUE)]

\* _cancelSnapshot(snapshot)
Percy_cancelSnapshot(P, n) ==
  [P EXCEPT !.snapshots = Queue_cancel(@, SnapshotId(n)),
            !.uploads = Queue_cancel(@, UploadId(n))]

\* _takeSnapshot(snapshot)
Percy_takeSnapshot(P, n) ==
  [Percy_cancelSnapshot(P, n) EXCEPT
     !.snapshots = Queue_push(@, SnapshotId(n), Undefined, "snapshot")]

\* an upload scheduled whatever the state of the build
ScheduleUnchecked(P, n) ==
  [P EXCEPT !.uploads = Queue_push(@, UploadId(n), Undefined, "upload")]

\* _scheduleUpload(name, options): throws when build.error is set
Percy_scheduleUpload(P, n) ==
  IF P.build.error THEN P
  ELSE [P EXCEPT !.uploads = Queue_push(@, UploadId(n), Undefined, "upload")]

\* flush(close), the uploads part: run, close, and wait for the upload queue
Percy_flushUploads(P, close) ==
  IF ~P.skipUploads /\ Queue_size(P.uploads) > 0
  THEN LET U == IF close THEN Queue_close(P.uploads, FALSE) ELSE P.uploads
       IN IF ~P.deferUploads \/ ~Queue_has(U, BuildId) \/ Queue_size(U) > 1
          THEN [P EXCEPT !.uploads = Queue_flush(U),
                         ![Caller(close)] = Flushing("uploads", U)]
          ELSE [P EXCEPT !.uploads = U, ![Caller(close)] = After(close)]
  ELSE [P EXCEPT ![Caller(close)] = After(close)]

\* flush(close) after its setImmediate: close the snapshot queue and wait for
\* it to empty, or go on to the uploads at once
Percy_flushSnapshots(P, close) ==
  IF Queue_size(P.snapshots) > 0
  THEN [P EXCEPT !.snapshots = Queue_flush(IF close THEN Queue_close(@, FALSE)
                                           ELSE @),
                 ![Caller(close)] = Flushing("snapshots", P.snapshots)]
  ELSE Percy_flushUploads(P, close)

\* a canceled flush(close) that leaves closed queues closed
FlushCanceledClosed(P, close) ==
  LET w == P[Caller(close)]
      C == IF w.pc \in {"snapshots", "uploads"}
           THEN [P EXCEPT ![w.pc] = Queue_flushCanceled(@, w.stopped)]
           ELSE P
  IN [C EXCEPT ![Caller(close)] = At("none")]

\* A flush(close) is canceled: the canceled handler of the queue flush it
\* waits for, then its own: reopen closed queues when canceled
Percy_flushCanceled(P, close) ==
  LET w == P[Caller(close)]
      C == IF w.pc \in {"snapshots", "uploads"}
           THEN [P EXCEPT ![w.pc] = Queue_flushCanceled(@, w.stopped)]
           ELSE P
      O == IF close
           THEN [C EXCEPT !.snapshots = Queue_open(@), !.uploads = Queue_open(@)]
           ELSE C
  IN [O EXCEPT ![Caller(close)] = At("none")]

SnapshotUnchecked(P, n) ==
  [P EXCEPT !.gather = @ \cup {n}, !.calls = @ + 1]

\* snapshot(options) for one snapshot, up to `yield gatherSnapshots`: throws
\* when not running or when the build has an error
Percy_snapshot(P, n) ==
  IF P.readyState # 1 \/ P.build.error THEN P
  ELSE [P EXCEPT !.gather = @ \cup {n}, !.calls = @ + 1]

\* ----------------------------------------------------------------- logger
LOG_LEVELS == [debug |-> 0, info |-> 1, warn |-> 2, error |-> 3]
Levels == DOMAIN LOG_LEVELS

\* debug groups, and the messages of the calls
Namespaces == {"core", "logger"}
Messages == {"a", "b"}
Warning(m) == IF m = "a" THEN "Warning: a" ELSE "Warning: b"

\* `this.socket` when no socket was assigned, or after the cleanup
NoSocket == [id |-> 0, readyState |-> 3, handler |-> 0]

\* new PercyLogger(): `include` and `exclude` are the debug groups that some
\* pattern of namespaces.include / namespaces.exclude matches; stdout and
\* stderr count the writes; `sent` holds the socket.send calls in order;
\* `calls` counts the calls of log(), deprecated() and remote();
\* remote is the remote() call in flight: its number, its position, whether
\* its timer is pending, the value its promise resolved with; `creating` is
\* the call whose createSocket() is pending, `cleanup` whether remote() has
\* returned its cleanup function, `connected` whether remote() has succeeded
PercyLogger(level, include, exclude) ==
  [level |-> level, include |-> include, exclude |-> exclude,
   messages |-> <<>>, deprecations |-> {},
   stdout |-> 0, stderr |-> 0,
   socket |-> NoSocket, sent |-> <<>>,
   remote |-> [call |-> 0, pc |-> "none", timer |-> FALSE, err |-> FALSE],
   creating |-> 0, cleanup |-> FALSE, connected |-> FALSE, fallback |-> FALSE,
   calls |-> 0]

Entry(debug, level, message, remote) ==
  [debug |-> debug, level |-> level, message |-> message, remote |-> remote]

\* shouldLog(debug, level)
Logger_shouldLog(L, debug, level) ==
  /\ LOG_LEVELS[level] >= LOG_LEVELS[L.level]
  /\ debug \notin L.exclude
  /\ debug \in L.include

\* get isRemote
Logger_isRemote(L) == L.socket.id # 0 /\ L.socket.readyState = 1

\* write(level, message)
Logger_write(L, level) ==
  IF level = "info" THEN [L EXCEPT !.stdout = @ + 1]
  ELSE [L EXCEPT !.stderr = @ + 1]

\* socket.send of one message
Logger_send(L, kind, entries) ==
  [L EXCEPT !.sent = Append(@, [socket |-> L.socket.id, kind |-> kind,
                                entries |-> entries])]

\* a log() that stores only what it writes
LogWritten(L, debug, level, message) ==
  IF Logger_isRemote(L)
  THEN Logger_send(L, "log", <<Entry(debug, level, message, TRUE)>>)
  ELSE IF Logger_shouldLog(L, debug, level)
       THEN Logger_write([L EXCEPT !.messages =
                            Append(@, Entry(debug, level, message, FALSE))],
                         level)
       ELSE L

\* a log() that also stores what it sends
LogStored(L, debug, level, message) ==
  LET S == [L EXCEPT !.messages =
              Append(@, Entry(debug, level, message, FALSE))]
  IN IF Logger_isRemote(L)
     THEN Logger_send(S, "log", <<Entry(debug, level, message, TRUE)>>)
     ELSE IF Logger_shouldLog(L, debug, level) THEN Logger_write(S, level)
          ELSE S

\* log(debug, level, message)
Logger_log(L, debug, level, message) ==
  IF Logger_isRemote(L)
  THEN Logger_send(L, "log", <<Entry(debug, level, message, TRUE)>>)
  ELSE LET S == [L EXCEPT !.messages =
                   Append(@, Entry(debug, level, message, FALSE))]
       IN IF Logger_shouldLog(L, debug, level) THEN Logger_write(S, level)
          ELSE S

\* a deprecated() that warns every time
DeprecatedAgain(L, debug, message) ==
  Logger_log([L EXCEPT !.deprecations = @ \cup {message}],
             debug, "warn", Warning(message))

\* deprecated(debug, message)
Logger_deprecated(L, debug, message) ==
  IF message \in L.deprecations THEN L
  ELSE Logger_log([L EXCEPT !.deprecations = @ \cup {message}],
                  debug, "warn", Warning(message))

\* done(event) of the remote() call k: nothing once its timer is cleared
Logger_done(L, k, err) ==
  IF L.remote.call # k \/ ~L.remote.timer THEN L
  ELSE [L EXCEPT !.remote = [call |-> k, pc |-> "resume", timer |-> FALSE,
                             err |-> err],
                 !.socket.handler = 0]

\* the entries of the store as logAll carries them
Marked(entries) ==
  [i \in 1..Len(entries) |-> [entries[i] EXCEPT !.remote = TRUE]]

\* ------------------------------------------------------------------ state
\* queue: a Queue of its own; wait: the observed flush() call on it and its
\* returned future; percy: a Percy instance with its two queues
VARIABLES queue, wait, percy, logger

vars == <<queue, wait, percy, logger>>

\* A task's priority is read by next() only while it is queued, its id only
\* while it is in a map or running, and its callback only while it runs: what
\* the program never reads again is not kept.
Forget(Q) ==
  [Q EXCEPT !.tasks = [u \in Uids(Q) |->
     LET t == Q.tasks[u]
         dead == t.st \in {"settled", "dropped", "cleared"}
     IN [t EXCEPT !.priority = IF t.st = "queued" THEN t.priority ELSE Undefined,
                  !.open = IF t.st = "queued" THEN t.open ELSE FALSE,
                  !.cb = IF dead THEN "user" ELSE t.cb,
                  !.id = IF dead THEN "" ELSE t.id,
                  !.trig = IF dead THEN FALSE ELSE t.trig]]]

\* No flush() call is observed.
NoWait == [ph |-> "none", stopped |-> FALSE, before |-> 0, arg |-> 0]

\* A flush() call in flight: `stopped` as captured by the call, the number
\* of tasks created before the call (a task that is queued now and was
\* created before the call was queued at the call: no task is queued twice),
\* and the argument of the last call of its callback.
NewWait(Q) ==
  [ph |-> "wait", stopped |-> ~Q.running, before |-> Len(Q.tasks), arg |-> 0]

Init ==
  /\ queue \in {Queue(c) : c \in 1..MaxConcurrency}
  /\ wait = NoWait
  /\ percy = Percy(FALSE, FALSE, FALSE, 1)
  /\ logger = PercyLogger("info", Namespaces, {})

Push(id, priority) ==
  /\ Len(queue.tasks) < MaxTasks
  /\ queue' = Forget(Queue_push(queue, id, priority, "user"))
  /\ UNCHANGED <<wait, percy, logger>>

Cancel(id) ==
  /\ queue' = Forget(Queue_cancel(queue, id))
  /\ UNCHANGED <<wait, percy, logger>>

Clear ==
  /\ queue' = Forget(Queue_clear(queue))
  /\ UNCHANGED <<wait, percy, logger>>

Run ==
  /\ queue' = Forget(Queue_run(queue))
  /\ UNCHANGED <<wait, percy, logger>>

Stop ==
  /\ queue' = Forget(Queue_stop(queue))
  /\ UNCHANGED <<wait, percy, logger>>

Open ==
  /\ queue' = Forget(Queue_open(queue))
  /\ UNCHANGED <<wait, percy, logger>>

Close(abort) ==
  /\ queue' = Forget(Queue_close(queue, abort))
  /\ UNCHANGED <<wait, percy, logger>>

\* flush(), its returned future left alone
Flush ==
  /\ Len(queue.tasks) < MaxTasks
  /\ queue' = Forget(Queue_flush(queue))
  /\ UNCHANGED <<wait, percy, logger>>

Settle(u, outcome) ==
  /\ u \in Executing(queue)
  /\ outcome \in Outcomes(queue, u)
  /\ queue' = Forget(Queue_done(queue, u, outcome))
  /\ UNCHANGED <<wait, percy, logger>>

Next ==
  \/ \E id \in UserIds, p \in Priorities : Push(id, p)
  \/ \E id \in UserIds \cup {FlushId} : Cancel(id)
  \/ Clear
  \/ Run
  \/ Stop
  \/ Open
  \/ \E abort \in BOOLEAN : Close(abort)
  \/ Flush
  \/ \E u \in Uids(queue), o \in {"settled", "canceled"} : Settle(u, o)

Spec == Init /\ [][Next]_vars

\* ------------------------------------------------ flush() and its future
\* flush(), its returned future observed
FlushWait ==
  /\ Len(queue.tasks) < MaxTasks
  /\ wait.ph = "none"
  /\ queue' = Forget(Queue_flush(queue))
  /\ wait' = NewWait(queue)
  /\ UNCHANGED <<percy, logger>>

\* one poll of the idle() that flush() returns
Poll ==
  /\ wait.ph \in {"wait", "idle"}
  /\ wait' = [wait EXCEPT !.ph = IdlePoll(queue, @),
                          !.arg = Queue_flushProgress(queue)]
  /\ UNCHANGED <<queue, percy, logger>>

\* the returned future is canceled
CancelFlush ==
  /\ wait.ph \in {"wait", "idle"}
  /\ queue' = Forget(Queue_flushCanceled(queue, wait.stopped))
  /\ wait' = [NoWait EXCEPT !.ph = "canceled"]
  /\ UNCHANGED <<percy, logger>>

\* The queue may be stopped and restarted before the observed flush() is
\* called; while the call waits, only push, cancel and other flush() calls
\* are made.
NextFlush ==
  \/ \E id \in UserIds, p \in Priorities : Push(id, p)
  \/ \E id \in UserIds \cup {FlushId} : Cancel(id)
  \/ wait.ph = "none" /\ Stop
  \/ wait.ph = "none" /\ Run
  \/ FlushWait
  \/ Flush
  \/ Poll
  \/ CancelFlush
  \/ \E u \in Uids(queue), o \in {"settled", "canceled"} : Settle(u, o)

SpecFlush == Init /\ [][NextFlush]_vars

\* ------------------------------------------------------- the queue's claims
Live(Q) == SeqSet(Q.queued) \cup Q.pending
Task(u) == queue.tasks[u]

\* C1: no task id is in both `queued` and `pending`, and `pending` never holds
\* more than `concurrency` entries (the concurrency is fixed in Spec).
C1_DisjointAndBounded ==
  /\ \A u \in SeqSet(queue.queued), v \in queue.pending : Task(u).id # Task(v).id
  /\ Cardinality(queue.pending) <= queue.concurrency

\* `pending` is full, a task waits, and cancel or clear has removed a task
C1_Witness ==
  /\ Cardinality(queue.pending) = queue.concurrency
  /\ Len(queue.queued) > 0
  /\ \E u \in Uids(queue) : Task(u).st \in {"dropped", "cleared", "detached"}

\* C2: the callbacks started and not yet settled, those of tasks removed from
\* `pending` by cancel included, never number more than `concurrency`.
C2_RunningBounded == Cardinality(Executing(queue)) <= queue.concurrency

\* C3: when @@/flush is promoted, no task created before it is still queued.
C3_BarrierLast ==
  [][\A u \in Uids(queue') :
       (/\ queue'.tasks[u].id = FlushId
        /\ queue'.tasks[u].st = "pending"
        /\ (u \in Uids(queue) => Task(u).st = "queued"))
       => \A v \in 1..(u - 1) : queue'.tasks[v].st # "queued"]_vars

\* @@/flush is pending together with a task created before it
C3_Witness ==
  \E u \in queue.pending, v \in queue.pending :
    v < u /\ Task(u).id = FlushId /\ Task(v).id # FlushId

\* C4: when the future of flush() has resolved, no task that was queued at
\* the call is still queued.
C4_FlushDrains ==
  wait.ph = "resolved" => \A u \in 1..wait.before : Task(u).st # "queued"

\* C6 (the futures): a task that cancel removed from `queued` has its future
\* rejected as canceled.
C6_CanceledRejects ==
  \A u \in Uids(queue) : Task(u).st = "dropped" => Task(u).prom = "canceled"

\* C7: a push of an id that a queued or pending task holds removes that task
\* from both maps, leaves the id to the new task alone, and the future of the
\* replaced task is rejected as canceled once its callback is not running.
C7_PushReplaces ==
  [][\A u \in Live(queue) :
       LET n == Len(queue'.tasks)
       IN (n = Len(queue.tasks) + 1 /\ queue'.tasks[n].id = Task(u).id)
          => /\ u \notin Live(queue')
             /\ WithId(queue', Live(queue'), Task(u).id) = {n}
             /\ u \notin Executing(queue') => queue'.tasks[u].prom = "canceled"]_vars

\* The reference rule of next(): among the queued tasks up to and including
\* the first @@/flush, a number outranks null and undefined, a lower number
\* outranks a higher one, and the earliest wins a tie.
Scanned(Q) ==
  {i \in 1..Len(Q.queued) :
     \A j \in 1..(i - 1) : Q.tasks[Q.queued[j]].id # FlushId}

RefNext(Q) ==
  LET S == Scanned(Q)
      N == {i \in S : ~IsNullish(Q.tasks[Q.queued[i]].priority)}
      B == {i \in N : \A j \in N :
              Q.tasks[Q.queued[i]].priority.n <= Q.tasks[Q.queued[j]].priority.n}
      C == IF N = {} THEN S ELSE B
  IN IF S = {} THEN 0
     ELSE Q.queued[CHOOSE i \in C : \A j \in C : i <= j]

\* C10: next() returns the task the reference rule chooses.
C10_NextIsBest == Queue_next(queue) = RefNext(queue)

\* C11: a close(true) leaves `queued` empty, running false and closed true,
\* and the future of every task it removed from `queued` is rejected as
\* canceled.
C11_CloseAborts ==
  [][queue' = Forget(Queue_close(queue, TRUE))
       => /\ queue'.queued = <<>>
          /\ ~queue'.running
          /\ queue'.closed
          /\ \A u \in SeqSet(queue.queued) :
                queue'.tasks[u].prom = "canceled"]_vars

\* a queue without the ghost field `open` of its tasks, taken as open
Opened(Q) ==
  [Q EXCEPT !.closed = FALSE,
            !.tasks = [u \in Uids(Q) |-> [Q.tasks[u] EXCEPT !.open = FALSE]]]

\* C12: on a closed queue a push of an id that is no sentinel changes
\* nothing (no field, no task canceled, no task created), and a push of
\* @@/flush does what it does on an open queue.
C12_ClosedPushDropped ==
  queue.closed =>
    /\ \A id \in UserIds, p \in Priorities :
         Queue_push(queue, id, p, "user") = queue
    /\ /\ Queue_push(queue, FlushId, Undefined, "flush").closed
       /\ Opened(Queue_push(queue, FlushId, Undefined, "flush"))
            = Opened(Queue_push(Queue_open(queue), FlushId, Undefined, "flush"))

\* a closed, running queue with a free slot that holds the id "a": an
\* accepted push of "a" would cancel that task and start the new one
C12_Witness ==
  /\ queue.closed
  /\ queue.running
  /\ Queue_has(queue, "a")
  /\ Cardinality(queue.pending) < queue.concurrency

\* C13: clear() empties `queued`, leaves `pending` alone and returns the
\* size the queue had before the call.
C13_ClearReturnsPriorSize ==
  /\ Queue_clear(queue).queued = <<>>
  /\ Queue_clear(queue).pending = queue.pending
  /\ Queue_clearResult(queue) = Queue_size(queue)

\* the number of tasks queued ahead of @@/flush: its 0-based position in
\* `queued`, 0 when it is not queued
AheadOfFlush(Q) ==
  Cardinality({i \in 1..Len(Q.queued) :
                 \E j \in (i + 1)..Len(Q.queued) :
                    Q.tasks[Q.queued[j]].id = FlushId})

FlushPending(Q) == WithId(Q, Q.pending, FlushId) # {}

\* C14 as stated: a poll of flush(cb) calls cb with |pending| plus the number
\* of tasks queued ahead of @@/flush, which is 0 when @@/flush is pending or
\* in neither map.
C14_PollReports ==
  [][Poll => wait'.arg = Cardinality(queue.pending) + AheadOfFlush(queue)]_vars

\* C14 amended: when @@/flush is pending the poll calls cb with |pending| - 1
\* (the barrier itself is not counted); otherwise as stated.
C14_PollReportsButBarrier ==
  [][Poll => wait'.arg = Cardinality(queue.pending) + AheadOfFlush(queue)
                         - (IF FlushPending(queue) THEN 1 ELSE 0)]_vars

\* @@/flush is pending beside another task and the poll has reported 1
C14_Witness ==
  /\ wait.ph = "wait"
  /\ FlushPending(queue)
  /\ Cardinality(queue.pending) = 2
  /\ wait.arg = 1

\* C15: when the future of flush() is canceled, @@/flush is in neither map
\* afterwards and `running` is what it was when flush() was called (no
\* stop() or run() is called while the flush waits).
C15_CancelRestores ==
  [][CancelFlush => /\ ~Queue_has(queue', FlushId)
                    /\ queue'.running = ~wait.stopped]_vars

\* ----------------------------------------- the queue under fair completion
\* `concurrency` is a public field: Percy's setConfig assigns it at any time.
SetConcurrency(c) ==
  /\ c # queue.concurrency
  /\ queue' = [queue EXCEPT !.concurrency = c]
  /\ UNCHANGED <<wait, percy, logger>>

InitLive ==
  /\ queue = Queue(1)
  /\ wait = NoWait
  /\ percy = Percy(FALSE, FALSE, FALSE, 1)
  /\ logger = PercyLogger("info", Namespaces, {})

\* SpecLive creates at most MaxLiveTasks tasks
LiveRoom == Len(queue.tasks) < MaxLiveTasks

NextLive ==
  \/ \E id \in UserIds, p \in LivePriorities : LiveRoom /\ Push(id, p)
  \/ \E id \in UserIds : Cancel(id)
  \/ Clear
  \/ Stop
  \/ Run
  \/ LiveRoom /\ Flush
  \/ \E c \in 1..MaxConcurrency : SetConcurrency(c)
  \/ \E u \in Uids(queue) : Settle(u, "settled")

\* every started callback eventually settles
SpecLive ==
  /\ InitLive
  /\ [][NextLive]_vars
  /\ \A u \in 1..MaxLiveTasks : WF_vars(Settle(u, "settled"))

Queued(u) == u \in Uids(queue) /\ Task(u).st = "queued"
Started(u) == u \in Uids(queue) /\ Task(u).st \in {"pending", "detached", "settled"}

Ready ==
  /\ queue.running
  /\ Len(queue.queued) > 0
  /\ Cardinality(queue.pending) < queue.concurrency

\* C9: a running queue with a queued task and a free slot does not stay so:
\* left alone, it promotes a task.
C9_ReadyPromotes == Ready ~> ~Ready

\* the slot was freed by cancel(id) of a pending task after `concurrency` was
\* raised, and the canceled callback is still running
C9_Witness ==
  /\ Ready
  /\ queue.concurrency > 1
  /\ queue.pending = {}
  /\ \E u \in Uids(queue) : Task(u).st = "detached"

\* ------------------------------------------------------- the Percy instance
\* Percy reads nothing of a task that is in neither map and has no running
\* callback: such a task is not kept, and the others are numbered anew in
\* their order.
Alive(Q) == {u \in Uids(Q) : Q.tasks[u].st \in {"queued", "pending", "detached"}}
Rank(S, u) == Cardinality({v \in S : v <= u})

Compact(Q) ==
  LET A == Alive(Q)
      old == [k \in 1..Cardinality(A) |-> CHOOSE u \in A : Rank(A, u) = k]
  IN [Q EXCEPT !.tasks = [k \in 1..Cardinality(A) |->
                           [Forget(Q).tasks[old[k]] EXCEPT !.open = FALSE]],
               !.queued = [i \in 1..Len(Q.queued) |-> Rank(A, Q.queued[i])],
               !.pending = {Rank(A, u) : u \in Q.pending}]

ForgetBoth(P) ==
  [P EXCEPT !.snapshots = Compact(@), !.uploads = Compact(@)]

InitPercy ==
  /\ queue = Queue(1)
  /\ wait = NoWait
  /\ logger = PercyLogger("info", Namespaces, {})
  /\ percy \in {Percy(dryRun, skipUploads, deferUploads, c) :
                  dryRun \in BOOLEAN, skipUploads \in BOOLEAN,
                  deferUploads \in BOOLEAN, c \in 1..MaxConcurrency}

\* the build/create tasks whose callback has started and not ended
Building(Q) == {u \in Executing(Q) : Q.tasks[u].cb = "build"}

\* a step of the instance; `created` counts the calls of client.createBuild,
\* one for each build/create callback that the step starts
Step(P) ==
  /\ percy' = ForgetBoth([P EXCEPT !.created =
                 @ + Cardinality(Building(P.uploads) \ Building(percy.uploads))])
  /\ UNCHANGED <<queue, wait, logger>>

\* a start() that does not test readyState
PercyStartAgain ==
  /\ percy.start.pc \in {"none", "done"}
  /\ percy.created < 2
  /\ LET U == Queue_push(percy.uploads, BuildId, Num(0), "build")
     IN Step([percy EXCEPT
                !.readyState = 0,
                !.uploads = U,
                !.start = [pc |-> IF percy.deferUploads THEN "launch" ELSE "await",
                           buildTask |-> "pending"]])

\* start() up to its first suspension
PercyStart ==
  /\ percy.readyState = NotStarted
  /\ LET U == Queue_push(percy.uploads, BuildId, Num(0), "build")
     IN Step([percy EXCEPT
                !.readyState = 0,
                !.uploads = U,
                !.start = [pc |-> IF percy.deferUploads THEN "launch" ELSE "await",
                           buildTask |-> "pending"]])

\* client.createBuild() settles inside a build/create task
CreateBuild(u, ok) ==
  LET U == percy.uploads
  IN /\ u \in Executing(U)
     /\ U.tasks[u].cb = "build"
     /\ IF ok
        THEN Step([percy EXCEPT
                     !.build.id = TRUE,
                     !.uploads = Queue_done(Queue_run(U), u, "settled"),
                     !.start.buildTask = IF percy.deferUploads THEN @
                                         ELSE "settled"])
        ELSE LET F == [percy EXCEPT !.uploads = Queue_done(U, u, "failed")]
             IN Step(IF percy.deferUploads
                     THEN Percy_close([F EXCEPT !.build.error = TRUE])
                     ELSE [F EXCEPT !.start.buildTask = "failed"])

\* start() resumes from `await buildTask`
StartAwaited ==
  /\ percy.start.pc = "await"
  /\ LET prom == percy.start.buildTask
     IN /\ prom \in {"settled", "failed"}
        /\ Step(IF prom = "settled"
                THEN [percy EXCEPT !.start.pc = "launch"]
                ELSE [percy EXCEPT !.start.pc = "done", !.readyState = 3])

\* browser.launch() and server.listen() have settled
StartLaunched(ok) ==
  /\ percy.start.pc = "launch"
  /\ Step([percy EXCEPT !.start.pc = "done",
                        !.readyState = IF ok THEN 1 ELSE 3])

\* snapshot(options) is called
PercySnapshot(n) ==
  /\ percy.calls < MaxSnapshots
  /\ n \notin percy.gather
  /\ Step(Percy_snapshot(percy, n))

\* gatherSnapshots has resolved: the call takes its snapshot
TakeSnapshot(n) ==
  /\ n \in percy.gather
  /\ Step([Percy_takeSnapshot(percy, n) EXCEPT !.gather = @ \ {n}])

\* discoverSnapshotResources ends inside a snapshot/<name> task: with the
\* snapshot, whose upload is scheduled, or with a failure, which the task
\* logs; a canceled task meets the canceled failure
Discovered(u, ok) ==
  LET S == percy.snapshots
  IN /\ u \in Executing(S)
     /\ S.tasks[u].cb = "snapshot"
     /\ ok => ~S.tasks[u].trig
     /\ LET P == IF ok THEN Percy_scheduleUpload(percy, NameOf(S.tasks[u].id))
                 ELSE percy
        IN Step([P EXCEPT !.snapshots = Queue_done(@, u, "settled")])

\* client.sendSnapshot settles inside an upload/<name> task: sent (or failed
\* with an error that is only logged), or failed because the build failed
Uploaded(u, failed) ==
  LET U == percy.uploads
  IN /\ u \in Executing(U)
     /\ U.tasks[u].cb = "upload"
     /\ failed => percy.build.id
     /\ LET P == IF failed
                 THEN Percy_close([percy EXCEPT !.build.error = TRUE,
                                                !.build.failed = TRUE])
                 ELSE percy
        IN Step([P EXCEPT !.uploads = Queue_done(@, u, "settled")])

\* the callback of a promoted @@/flush returns
BarrierDone(q, u) ==
  /\ u \in Executing(percy[q])
  /\ percy[q].tasks[u].cb \in {"flush", "flushStop"}
  /\ Step([percy EXCEPT ![q] = Queue_done(@, u, "settled")])

\* stop(force) up to the setImmediate of flush(true)
PercyStop(force) ==
  /\ percy.readyState \in {1, 2}
  /\ percy.readyState = 2 => force
  /\ LET C == IF force THEN Percy_close(percy) ELSE percy
     IN Step(IF percy.readyState = 2 THEN C
             ELSE [C EXCEPT !.readyState = 2, !.stop = At("tick")])

\* flush() is called on its own
PercyFlush ==
  /\ percy.flush.pc = "none"
  /\ percy.flushes < MaxFlushes
  /\ Step([percy EXCEPT !.flush = At("tick"), !.flushes = @ + 1])

\* flush(close) resumes after setImmediate
FlushTick(close) ==
  /\ percy[Caller(close)].pc = "tick"
  /\ Step(Percy_flushSnapshots(percy, close))

\* one poll of the queue flush that flush(close) waits for
FlushPoll(close) ==
  LET w == percy[Caller(close)]
  IN /\ w.pc \in {"snapshots", "uploads"}
     /\ LET ph == IdlePoll(percy[w.pc], w.ph)
        IN Step(IF ph # "resolved" THEN [percy EXCEPT ![Caller(close)].ph = ph]
                ELSE IF w.pc = "snapshots"
                     THEN Percy_flushUploads(percy, close)
                     ELSE [percy EXCEPT ![Caller(close)] = After(close)])

\* a canceled start() that resets the ready state in every mode
StartCanceledReset ==
  /\ percy.start.pc = "launch"
  /\ percy.cancels < MaxCancels
  /\ Step([percy EXCEPT !.uploads = Queue_cancel(@, BuildId),
                        !.readyState = NotStarted,
                        !.start.pc = "none",
                        !.cancels = @ + 1])

\* the future of start() is canceled while start() waits for the browser
\* or the server
StartCanceled ==
  /\ percy.start.pc = "launch"
  /\ percy.cancels < MaxCancels
  /\ Step(IF percy.deferUploads
          THEN [percy EXCEPT !.uploads = Queue_cancel(@, BuildId),
                             !.readyState = NotStarted,
                             !.start.pc = "none",
                             !.cancels = @ + 1]
          ELSE [percy EXCEPT !.readyState = 3,
                             !.start.pc = "done",
                             !.cancels = @ + 1])

\* the future of stop() is canceled while stop() is in flush(true)
StopCanceled ==
  /\ percy.stop.pc \in {"tick", "snapshots", "uploads"}
  /\ percy.cancels < MaxCancels
  /\ Step([Percy_flushCanceled(percy, TRUE) EXCEPT !.readyState = 1,
                                                   !.cancels = @ + 1])

\* the future of a flush() of its own is canceled
FlushCanceled ==
  /\ percy.flush.pc \in {"tick", "snapshots", "uploads"}
  /\ percy.cancels < MaxCancels
  /\ Step([Percy_flushCanceled(percy, FALSE) EXCEPT !.cancels = @ + 1])

\* a stop() that finalizes every build that has an id
StopClosedFinalizing ==
  /\ percy.stop.pc = "closing"
  /\ Step(IF percy.build.id
          THEN [percy EXCEPT !.stop = At("finalizing")]
          ELSE [percy EXCEPT !.stop = At("done"), !.readyState = 3])

\* stop() after server.close() and browser.close(): finalize the build, or
\* warn and mark the instance as stopped
StopClosed ==
  /\ percy.stop.pc = "closing"
  /\ Step(IF ~percy.build.failed /\ percy.build.id
          THEN [percy EXCEPT !.stop = At("finalizing")]
          ELSE [percy EXCEPT !.stop = At("done"), !.readyState = 3])

\* client.finalizeBuild settles
Finalized(ok) ==
  /\ percy.stop.pc = "finalizing"
  /\ Step([percy EXCEPT !.stop = At("done"),
                        !.readyState = IF ok THEN 3 ELSE @])

\* close(), called directly on an instance that was started
PercyClose ==
  /\ percy.readyState # NotStarted
  /\ Step([Percy_close(percy) EXCEPT !.closeCalled = TRUE])

NextPercy ==
  \/ PercyStart
  \/ \E u \in Uids(percy.uploads), ok \in BOOLEAN : CreateBuild(u, ok)
  \/ StartAwaited
  \/ \E ok \in BOOLEAN : StartLaunched(ok)
  \/ \E n \in Names : PercySnapshot(n)
  \/ \E n \in Names : TakeSnapshot(n)
  \/ \E u \in Uids(percy.snapshots), ok \in BOOLEAN : Discovered(u, ok)
  \/ \E u \in Uids(percy.uploads), failed \in BOOLEAN : Uploaded(u, failed)
  \/ \E q \in {"snapshots", "uploads"} :
       \E u \in Uids(percy[q]) : BarrierDone(q, u)
  \/ \E force \in BOOLEAN : PercyStop(force)
  \/ PercyFlush
  \/ \E close \in BOOLEAN : FlushTick(close)
  \/ \E close \in BOOLEAN : FlushPoll(close)
  \/ StartCanceled
  \/ StopCanceled
  \/ FlushCanceled
  \/ StopClosed
  \/ \E ok \in BOOLEAN : Finalized(ok)
  \/ PercyClose

SpecPercy == InitPercy /\ [][NextPercy]_vars

WorkIds == {SnapshotId(n) : n \in Names} \cup {UploadId(n) : n \in Names}

\* the tasks snapshot/<name> and upload/<name> that a queue holds
Work(Q) == {u \in Live(Q) : Q.tasks[u].id \in WorkIds}

InvokesFinalize == percy.stop.pc = "closing" /\ percy'.stop.pc = "finalizing"

\* C5: whenever stop() invokes client.finalizeBuild, neither the snapshots
\* queue nor the uploads queue holds a queued or pending snapshot/<name> or
\* upload/<name> task.
C5_FinalizeAfterHandled ==
  [][InvokesFinalize => Work(percy.snapshots) = {} /\ Work(percy.uploads) = {}]_vars

\* the upload/<name> tasks whose callback has started and not ended
Uploading(P) ==
  {u \in Executing(P.uploads) : P.uploads.tasks[u].cb = "upload"}

\* C16: on the uploads queue no upload/<name> task's callback is started
\* before build/create has completed successfully: while a callback of an
\* upload/<name> task runs, the build has its id.
C16_UploadsAfterBuild == Uploading(percy) # {} => percy.build.id

\* the changes of readyState that the class comment and stop()/start() name
ReadyStateChanges ==
  {<<NotStarted, 0>>, <<0, 1>>, <<0, 3>>, <<1, 2>>, <<2, 3>>, <<2, 1>>,
   <<0, NotStarted>>}

\* C17: readyState changes only along null->0, 0->1, 0->3, 1->2, 2->3, along
\* 2->1 when stop() is canceled and along 0->null when a deferred start() is
\* canceled; once it is 3 it never changes again.
C17_ReadyStateChanges ==
  [][percy'.readyState # percy.readyState =>
       /\ <<percy.readyState, percy'.readyState>> \in ReadyStateChanges
       /\ (percy.readyState = 2 /\ percy'.readyState = 1) => StopCanceled
       /\ percy'.readyState = NotStarted =>
            percy.deferUploads /\ percy'.cancels = percy.cancels + 1]_vars

\* an instance that was stopped to the end after one of its calls was canceled
C17_Witness ==
  /\ percy.readyState = 3
  /\ percy.stop.pc = "done"
  /\ percy.cancels = 1
  /\ percy.flushes = 0

\* C18: snapshot(options) fails whenever readyState is not 1 or build.error
\* is set, and then it enqueues no task and cancels no task on either queue:
\* the call leaves the instance as it was.
C18_SnapshotRejected ==
  (percy.readyState # 1 \/ percy.build.error) =>
    \A n \in Names : Percy_snapshot(percy, n) = percy

\* a started instance whose build has an error while snapshot tasks are
\* held and a further snapshot() call can be made
C18_Witness ==
  /\ percy.readyState = 1
  /\ percy.build.error
  /\ Queue_size(percy.snapshots) > 0
  /\ percy.calls < MaxSnapshots

\* the upload/<name> tasks that the uploads queue has accepted and not started
UploadsQueued(P) ==
  {i \in 1..Len(P.uploads.queued) :
     P.uploads.tasks[P.uploads.queued[i]].cb = "upload"}

\* both queues closed, stopped and cleared
ClosedAndCleared(P) ==
  \A q \in {"snapshots", "uploads"} :
    P[q].closed /\ ~P[q].running /\ P[q].queued = <<>>

\* C19: an upload that fails with status 422 and a /data/attributes/build
\* pointer sets build.failed and build.error and leaves both queues closed,
\* stopped and cleared; from then on no upload/<name> task is accepted or
\* started, whatever is called later, a canceled stop() included.
C19_FailedBuildStopsUploads ==
  [][/\ (\E u \in Uids(percy.uploads) : Uploaded(u, TRUE)) =>
          percy'.build.failed /\ percy'.build.error /\ ClosedAndCleared(percy')
     /\ percy.build.failed =>
          /\ percy'.build.failed /\ percy'.build.error
          /\ UploadsQueued(percy') = {}
          /\ Cardinality(Uploading(percy')) <= Cardinality(Uploading(percy))]_vars

\* after the failure a canceled stop() has reopened the queues while a
\* snapshot task is still discovering
C19_Witness ==
  /\ percy.build.failed
  /\ percy.readyState = 1
  /\ ~percy.uploads.closed
  /\ \E u \in Executing(percy.snapshots) :
       percy.snapshots.tasks[u].cb = "snapshot" /\ ~percy.snapshots.tasks[u].trig

\* C20: stop() calls client.finalizeBuild only for a build that has an id
\* and is not failed.
C20_FinalizeOnlyGoodBuild ==
  [][InvokesFinalize => percy.build.id /\ ~percy.build.failed]_vars

\* stop() has ended for a build that had failed, without finalizing it
C20_Witness ==
  /\ percy.stop.pc = "done"
  /\ percy.readyState = 3
  /\ percy.build.id
  /\ percy.build.failed

\* stop() in dry-run, after flush(true): the total of "Found <total>
\* snapshot(s)", logged when the uploads queue is not empty
Percy_found(P) == Queue_size(P.uploads) - 1

\* stop() passes from flush(true) to the dry-run report
Reports ==
  /\ percy.stop.pc \in {"tick", "snapshots", "uploads"}
  /\ percy'.stop.pc = "closing"
  /\ percy'.dryRun
  /\ Queue_size(percy'.uploads) > 0

\* the upload/<name> tasks that the uploads queue holds
UploadsHeld(P) ==
  {u \in Live(P.uploads) : P.uploads.tasks[u].cb = "upload"}

\* C21: with dryRun or skipUploads no task of the uploads queue is ever
\* promoted or executed, the uploads stay queued, and the total that stop()
\* reports in dry-run is the number of upload/<name> tasks held.
C21_SkippedUploadsStayQueued ==
  [][percy.skipUploads =>
       /\ Executing(percy'.uploads) = {} /\ percy'.uploads.pending = {}
       /\ Reports => Percy_found(percy') = Cardinality(UploadsHeld(percy'))]_vars

\* C22: when stop() is canceled while it is flushing, readyState is 1
\* afterwards, neither the snapshots queue nor the uploads queue is closed,
\* and the call has ended with the canceled failure.
C22_CanceledStopReopens ==
  [][StopCanceled =>
       /\ percy'.readyState = 1
       /\ ~percy'.snapshots.closed /\ ~percy'.uploads.closed
       /\ percy'.stop.pc = "none"]_vars

\* a stop(true) was canceled: the snapshots queue that close() had closed
\* and stopped is open again
C22_Witness ==
  /\ percy.readyState = 1
  /\ percy.cancels = 1
  /\ percy.stop.pc = "none"
  /\ ~percy.snapshots.closed /\ ~percy.snapshots.running
  /\ ~percy.uploads.closed

\* C23: one build per Percy run: over any sequence of start, flush and stop
\* calls, a canceled deferred start followed by another start included,
\* client.createBuild is invoked at most once per instance.
C23_OneBuild == percy.created <= 1

\* the second start() after a canceled deferred start has queued
\* build/create again
C23_Witness ==
  /\ percy.deferUploads
  /\ percy.readyState = 0
  /\ percy.cancels = 1
  /\ percy.flushes = 0
  /\ Queue_has(percy.uploads, BuildId)

\* client.createBuild fails in deferred mode
DeferredBuildFails ==
  percy.deferUploads /\ \E u \in Uids(percy.uploads) : CreateBuild(u, FALSE)

\* the step accepts no upload/<name> task and starts none
NoUploadStarted ==
  /\ UploadsQueued(percy') = {}
  /\ Cardinality(Uploading(percy')) <= Cardinality(Uploading(percy))

\* C24: when build creation fails in deferred mode, build.error is set and
\* both queues are stopped, cleared and closed, no queued upload/<name> task
\* is started from then on and later snapshot() calls fail; in non-deferred
\* mode the failure rejects start() and leaves readyState = 3.
C24_BuildFailureCloses ==
  [][/\ DeferredBuildFails =>
          percy'.build.error /\ ClosedAndCleared(percy') /\ NoUploadStarted
     /\ (percy.build.error /\ ~percy.build.failed) =>
          /\ NoUploadStarted
          /\ percy'.build.error
          /\ \A n \in Names : Percy_snapshot(percy', n) = percy'
     /\ (~percy.deferUploads /\ StartAwaited /\ percy.start.buildTask = "failed") =>
          percy'.readyState = 3 /\ percy'.start.pc = "done"]_vars

\* ----------------------------------------------------------------- logger
\* A logger of its own, with its socket: log() and deprecated() calls of the
\* groups, one remote() call at a time, and what the socket and the timer do.
\* namespaces after new PercyLogger(), debug("core") and debug("*,-core")
Patterns ==
  {[include |-> Namespaces, exclude |-> {}],
   [include |-> {"core"}, exclude |-> {}],
   [include |-> Namespaces, exclude |-> {"core"}]}

InitLogger ==
  /\ queue = Queue(1)
  /\ wait = NoWait
  /\ percy = Percy(FALSE, FALSE, FALSE, 1)
  /\ logger \in {PercyLogger(level, ns.include, ns.exclude) :
                   level \in Levels, ns \in Patterns}

LoggerStep(L) == logger' = L /\ UNCHANGED <<queue, wait, percy>>

\* a call of the logger is made
Called(L) == [L EXCEPT !.calls = @ + 1]

\* group.<level>(message)
Log(debug, level, message) ==
  /\ logger.calls < MaxLoggerCalls
  /\ LoggerStep(Logger_log(Called(logger), debug, level, message))

\* group.deprecated(message)
Deprecated(debug, message) ==
  /\ logger.calls < MaxLoggerCalls
  /\ LoggerStep(Logger_deprecated(Called(logger), debug, message))

\* remote(createSocket, timeout) up to its await: returns at once when
\* remote already
Remote ==
  /\ logger.remote.pc = "none"
  /\ logger.creating = 0
  /\ logger.calls < MaxLoggerCalls
  /\ ~Logger_isRemote(logger)
  /\ LoggerStep([Called(logger) EXCEPT
                   !.remote = [call |-> @.call + 1, pc |-> "wait",
                               timer |-> TRUE, err |-> FALSE],
                   !.creating = logger.remote.call + 1,
                   !.connected = FALSE,
                   !.fallback = FALSE])

\* createSocket() resolves with a socket that is open or still connecting
SocketCreated(open) ==
  /\ logger.creating # 0
  /\ LET k == logger.creating
         S == [logger EXCEPT
                 !.socket = [id |-> k, readyState |-> IF open THEN 1 ELSE 0,
                             handler |-> 0],
                 !.creating = 0]
     IN LoggerStep(IF open THEN Logger_done(S, k, FALSE)
                   ELSE [S EXCEPT !.socket.handler = k])

\* createSocket() rejects
CreateFailed ==
  /\ logger.creating # 0
  /\ LoggerStep(Logger_done([logger EXCEPT !.creating = 0],
                            logger.creating, TRUE))

\* the timer of remote() fires
Timeout ==
  /\ logger.remote.timer
  /\ LoggerStep(Logger_done(logger, logger.remote.call, TRUE))

\* the socket opens
SocketOpens ==
  /\ logger.socket.id # 0
  /\ logger.socket.readyState = 0
  /\ LET S == [logger EXCEPT !.socket.readyState = 1]
     IN LoggerStep(IF S.socket.handler # 0
                   THEN Logger_done(S, S.socket.handler, FALSE)
                   ELSE S)

\* the socket fails to connect
SocketError ==
  /\ logger.socket.id # 0
  /\ logger.socket.readyState = 0
  /\ LET S == [logger EXCEPT !.socket.readyState = 3]
     IN LoggerStep(IF S.socket.handler # 0
                   THEN Logger_done(S, S.socket.handler, TRUE)
                   ELSE S)

\* the open socket closes
SocketCloses ==
  /\ logger.socket.id # 0
  /\ logger.socket.readyState = 1
  /\ LoggerStep([logger EXCEPT !.socket.readyState = 3])

\* remote() resumes from its await: two debug lines on an error, else the
\* store goes out as one logAll and the cleanup function is returned
RemoteResumes ==
  /\ logger.remote.pc = "resume"
  /\ LET R == [logger EXCEPT !.remote.pc = "none"]
     IN LoggerStep(
          IF logger.remote.err
          THEN Logger_log(Logger_log([R EXCEPT !.fallback = TRUE],
                                     "logger", "debug", "Unable to connect"),
                          "logger", "debug", "Error")
          ELSE LET S == IF Len(R.messages) > 0
                        THEN Logger_send(R, "logAll", Marked(R.messages))
                        ELSE R
               IN [S EXCEPT !.cleanup = TRUE, !.connected = TRUE])

\* the cleanup function that remote() returned is called
Cleanup ==
  /\ logger.cleanup
  /\ logger.remote.pc = "none"
  /\ logger.creating = 0
  /\ LoggerStep([logger EXCEPT !.socket = NoSocket, !.cleanup = FALSE])

NextLogger ==
  \/ \E debug \in Namespaces, level \in Levels : Log(debug, level, "a")
  \/ \E debug \in Namespaces, message \in Messages : Deprecated(debug, message)
  \/ Remote
  \/ \E open \in BOOLEAN : SocketCreated(open)
  \/ CreateFailed
  \/ Timeout
  \/ SocketOpens
  \/ SocketError
  \/ SocketCloses
  \/ RemoteResumes
  \/ Cleanup

SpecLogger == InitLogger /\ [][NextLogger]_vars

\* C25: a log() call made while not remote whose group matches no include
\* pattern or matches an exclude pattern, or whose level is below the
\* current level, writes nothing to stdout or stderr and appends exactly one
\* entry for the call to the store.
C25_FilteredLogStored ==
  \A debug \in Namespaces, level \in Levels, message \in Messages :
    (~Logger_isRemote(logger) /\ ~Logger_shouldLog(logger, debug, level)) =>
      LET L == Logger_log(logger, debug, level, message)
      IN /\ L.stdout = logger.stdout /\ L.stderr = logger.stderr
         /\ L.sent = logger.sent
         /\ L.messages =
              Append(logger.messages, Entry(debug, level, message, FALSE))

\* a filtered log() call was made: its entry is stored, stdio got nothing
C25_Witness ==
  /\ Len(logger.messages) = 1
  /\ ~Logger_shouldLog(logger, logger.messages[1].debug,
                       logger.messages[1].level)
  /\ logger.stdout = 0 /\ logger.stderr = 0
  /\ logger.socket.id = 0

\* the warn logs emitted for the deprecation `message`: stored, or sent as
\* a log message
Warned(L, message) ==
  Cardinality({i \in 1..Len(L.messages) :
                 L.messages[i].message = Warning(message)})
  + Cardinality({i \in 1..Len(L.sent) :
                   /\ L.sent[i].kind = "log"
                   /\ L.sent[i].entries[1].message = Warning(message)})

\* C26: over any sequence of deprecated(msg) calls on any groups at most one
\* warn log is emitted per exact msg, and a repeated call with the same msg
\* changes neither the store nor stdio nor the socket.
C26_DeprecatedOnce ==
  \A message \in Messages :
    /\ Warned(logger, message) <= 1
    /\ message \in logger.deprecations =>
         \A debug \in Namespaces :
           Logger_deprecated(logger, debug, message) = logger

\* deprecated("a") was called twice and warned once
C26_Witness ==
  /\ logger.calls = 2
  /\ logger.remote.call = 0
  /\ logger.deprecations = {"a"}
  /\ Warned(logger, "a") = 1
  /\ Len(logger.messages) = 1

\* a log() call in the state L makes one socket.send and nothing else
SendsOnly(L) ==
  \A debug \in Namespaces, level \in Levels, message \in Messages :
    LET N == Logger_log(L, debug, level, message)
    IN /\ Len(N.sent) = Len(L.sent) + 1
       /\ N.sent[Len(N.sent)] =
            [socket |-> L.socket.id, kind |-> "log",
             entries |-> <<Entry(debug, level, message, TRUE)>>]
       /\ N.stdout = L.stdout /\ N.stderr = L.stderr
       /\ N.messages = L.messages

\* C27 as stated: after remote() has succeeded every later log() call makes
\* exactly one socket.send, writes nothing to stdio and appends nothing to
\* the store.
C27_RemoteLogSent == logger.connected => SendsOnly(logger)

\* C27 amended: so it is for as long as the socket stays open and the
\* cleanup function that remote() returned has not been called.
C27_RemoteLogSentWhileOpen ==
  (logger.connected /\ Logger_isRemote(logger)) => SendsOnly(logger)

\* remote() has succeeded, sent the store, and a later log() call was sent
C27_Witness ==
  /\ logger.connected
  /\ Logger_isRemote(logger)
  /\ Len(logger.sent) = 2
  /\ logger.sent[1].kind = "logAll"
  /\ logger.sent[2].kind = "log"

\* remote() resumes as succeeded with a store that is not empty
Connects ==
  /\ RemoteResumes
  /\ ~logger.remote.err
  /\ Len(logger.messages) > 0

\* every logAll message is the first message sent on its socket
LogAllFirst(L) ==
  \A i \in 1..Len(L.sent) :
    L.sent[i].kind = "logAll" =>
      \A j \in 1..(i - 1) : L.sent[j].socket # L.sent[i].socket

\* C28: when remote() succeeds with a store that is not empty, the socket is
\* sent one logAll message with every entry of the store, each marked
\* remote, and that message precedes every log message on that socket.
C28_LogAllFirst ==
  [][Connects =>
       /\ logger'.sent =
            Append(logger.sent,
                   [socket |-> logger.socket.id, kind |-> "logAll",
                    entries |-> Marked(logger.messages)])
       /\ LogAllFirst(logger')]_vars

\* a log() call in the state L is stored, written as shouldLog says, and
\* not sent
LocalOnly(L) ==
  \A debug \in Namespaces, level \in Levels, message \in Messages :
    LET N == Logger_log(L, debug, level, message)
        n == IF Logger_shouldLog(L, debug, level) THEN 1 ELSE 0
    IN /\ N.sent = L.sent
       /\ N.messages = Append(L.messages, Entry(debug, level, message, FALSE))
       /\ N.stdout + N.stderr = L.stdout + L.stderr + n

\* C29: when remote() has failed (socket error, createSocket rejection or
\* timeout), every later log() call appends to the store, is written to
\* stdio as shouldLog says, and nothing is sent on the socket, also when the
\* socket opens after the timeout.
C29_FallbackIsLocal == logger.fallback => LocalOnly(logger)

\* ------------------------------------------------- settling and `pending`
\* C30: the completion of a started task removes from `pending` at most that
\* task itself: when the task was taken out of `pending` by cancel(id) or by
\* a push of its id, its completion removes no entry, the entry of a newer
\* task of the same id included.
C30_SettleRemovesOwnEntry ==
  \A u \in Executing(queue) : \A o \in Outcomes(queue, u) :
    queue.pending \ Queue_done(queue, u, o).pending
      \subseteq (IF Task(u).st = "pending" THEN {u} ELSE {})

\* a callback canceled by a push of its id is still running while the newer
\* task of that id is pending
C30_Witness ==
  \E u \in Uids(queue), v \in queue.pending :
    /\ u < v
    /\ Task(u).st = "detached"
    /\ Task(u).id = Task(v).id
    /\ v \in Queue_done(queue, u, "canceled").pending

\* ------------------------------------------------- stop() and readyState 2
\* a stop() call is between its `readyState = 2` and its return or throw
Stopping(P) ==
  P.stop.pc \in {"tick", "snapshots", "uploads", "closing", "finalizing"}

\* C31: readyState is 2 only while a stop() call is in flight: a stop() that
\* has ended, by returning, by being canceled or by a failure of
\* client.finalizeBuild, has left readyState at 3 or at 1.
C31_StoppingOnlyInFlight == percy.readyState = 2 => Stopping(percy)

\* ------------------------------------------- the snapshots queue when ready
\* C32: while readyState is 1, no build error is recorded and close() was
\* not called from outside the instance, the snapshots queue is open and
\* running, after a canceled stop(true) too.
C32_ReadyQueueRuns ==
  (percy.readyState = 1 /\ ~percy.build.error /\ ~percy.closeCalled)
    => ~percy.snapshots.closed /\ percy.snapshots.running

====
